---- MODULE Spec2Model ----
(***************************************************************************)
(* Model of gradio/flagging.py: the flagging callbacks CSVLogger and       *)
(* HuggingFaceDatasetSaver, together with the behaviour of the csv         *)
(* writer / reader dialects they use and of text-mode file reading.        *)
(*                                                                         *)
(* A text is a sequence of one-character strings.  A Python value is a     *)
(* record [t, s]: t = "none" (None), "str" (a str whose characters are s)  *)
(* or "num" (an int/float whose str() is s).                               *)
(***************************************************************************)
EXTENDS Integers, Sequences, FiniteSets, TLC

\* ------------------------------------------------------------------------
\* Characters.  A text is a sequence of these; the line terminator "\r\n"
\* that csv.writer emits is kept as the single element CRLF.
\* ------------------------------------------------------------------------
COMMA == ","
SQ == "'"
DQ == "\""
LF == "\n"
CR == "\r"
CRLF == "\r\n"

None == [t |-> "none", s |-> <<>>]
Str(s) == [t |-> "str", s |-> s]
Num(s) == [t |-> "num", s |-> s]

\* str(v) as csv.writer sees it: None is written as the empty string
TextOf(v) == IF v.t = "none" THEN <<>> ELSE v.s

\* Python truthiness of `label` in `component.label or ...`
Truthy(v) == v.t # "none" /\ v.s # <<>>

\* ------------------------------------------------------------------------
\* csv.writer
\* ------------------------------------------------------------------------
\* doublequote=True: every quotechar inside a field is written twice
RECURSIVE DoubleQuotes(_, _)
DoubleQuotes(s, q) ==
    IF s = <<>> THEN <<>>
    ELSE (IF Head(s) = q THEN <<q, q>> ELSE <<Head(s)>>) \o DoubleQuotes(Tail(s), q)

\* a character that forces quoting: delimiter, quotechar, or a character of
\* the line terminator "\r\n"
NeedsQuote(s, q) == \E i \in 1..Len(s) : s[i] \in {COMMA, q, CR, LF, CRLF}

\* the `quoted` decision of writerow for one field
IsQuoted(v, q, quoting) ==
    \/ quoting = "NONNUMERIC" /\ v.t # "num"
    \/ NeedsQuote(TextOf(v), q)

WriteField(v, q, quoting, forceQuote) ==
    IF forceQuote \/ IsQuoted(v, q, quoting)
    THEN <<q>> \o DoubleQuotes(TextOf(v), q) \o <<q>>
    ELSE TextOf(v)

RECURSIVE JoinFields(_)
JoinFields(fs) ==
    IF fs = <<>> THEN <<>>
    ELSE IF Len(fs) = 1 THEN fs[1]
    ELSE fs[1] \o <<COMMA>> \o JoinFields(Tail(fs))

\* csv.writer(...).writerow(cells): fields joined by the delimiter, ended by
\* "\r\n"; a row made of one empty field is written quoted
WriteRow(cells, q, quoting) ==
    LET single == Len(cells) = 1 /\ TextOf(cells[1]) = <<>>
    IN  JoinFields([i \in 1..Len(cells) |-> WriteField(cells[i], q, quoting, single)])
            \o <<CRLF>>

RECURSIVE WriteRows(_, _, _)
WriteRows(rows, q, quoting) ==
    IF rows = <<>> THEN <<>>
    ELSE WriteRow(Head(rows), q, quoting) \o WriteRows(Tail(rows), q, quoting)

\* ------------------------------------------------------------------------
\* Text-mode reading: open(path) with the default newline=None translates
\* "\r\n" and "\r" to "\n"
\* ------------------------------------------------------------------------
Translate(s) == [i \in 1..Len(s) |-> IF s[i] \in {CRLF, CR} THEN LF ELSE s[i]]

\* ------------------------------------------------------------------------
\* csv.reader (delimiter ",", doublequote, no escapechar, not strict) over a
\* text whose only line break is "\n".  The reader's character automaton is
\* followed field by field: from the start of a field to the delimiter or
\* line end that saves it.
\* ------------------------------------------------------------------------
\* j ends an unquoted stretch: delimiter, line end or end of input
IsEnd(text, j) == j > Len(text) \/ text[j] \in {COMMA, LF}

\* IN_FIELD: everything up to the next delimiter / line end is field text
UnquotedEnd(text, i) ==
    CHOOSE j \in i..(Len(text) + 1) :
        IsEnd(text, j) /\ \A k \in i..(j - 1) : ~IsEnd(text, k)

\* first position of the run of quotechars that ends at e, not before lo
RunStart(text, e, lo, q) ==
    CHOOSE s \in lo..e :
        /\ \A k \in s..e : text[k] = q
        /\ s = lo \/ text[s - 1] # q

\* IN_QUOTED_FIELD / QUOTE_IN_QUOTED_FIELD: inside a quoted field two
\* quotechars in a row are one literal quotechar, so the field opened at
\* i is closed by the last quotechar of the first run of odd length
IsClosing(text, e, i, q) ==
    /\ text[e] = q
    /\ e = Len(text) \/ text[e + 1] # q
    /\ (e - RunStart(text, e, i + 1, q) + 1) % 2 = 1

\* position of the closing quotechar, 0 if the input ends inside the field
ClosingQuote(text, i, q) ==
    IF \E e \in (i + 1)..Len(text) : IsClosing(text, e, i, q)
    THEN CHOOSE e \in (i + 1)..Len(text) :
            /\ IsClosing(text, e, i, q)
            /\ \A k \in (i + 1)..(e - 1) : ~IsClosing(text, k, i, q)
    ELSE 0

\* the text of a quoted stretch: each doubled quotechar is kept once
RECURSIVE Unescape(_, _)
Unescape(s, q) ==
    IF \A k \in 1..Len(s) : s[k] # q THEN s
    ELSE LET p == CHOOSE k \in 1..Len(s) : s[k] = q /\ \A m \in 1..(k - 1) : s[m] # q
         IN  SubSeq(s, 1, p) \o Unescape(SubSeq(s, p + 2, Len(s)), q)

\* START_FIELD at position i: the field and the position of what ends it.
\* After a closing quotechar any further text up to the delimiter is
\* appended as it stands (the reader is not strict).
ParseField(text, i, q) ==
    IF i <= Len(text) /\ text[i] = q
    THEN LET c == ClosingQuote(text, i, q)
         IN  IF c = 0
             THEN [field |-> Unescape(SubSeq(text, i + 1, Len(text)), q),
                   end |-> Len(text) + 1]
             ELSE LET j == UnquotedEnd(text, c + 1)
                  IN  [field |-> Unescape(SubSeq(text, i + 1, c - 1), q)
                                   \o SubSeq(text, c + 1, j - 1),
                       end |-> j]
    ELSE LET j == UnquotedEnd(text, i)
         IN  [field |-> SubSeq(text, i, j - 1), end |-> j]

\* the fields of the record from position i on, and where the next record starts
RECURSIVE ParseFields(_, _, _)
ParseFields(text, i, q) ==
    LET f == ParseField(text, i, q)
    IN  IF f.end <= Len(text) /\ text[f.end] = COMMA
        THEN LET rest == ParseFields(text, f.end + 1, q)
             IN  [rec |-> <<f.field>> \o rest.rec, next |-> rest.next]
        ELSE [rec |-> <<f.field>>, next |-> f.end + 1]

\* START_RECORD at position i: an empty line is a record without fields
ParseRecord(text, i, q) ==
    IF text[i] = LF THEN [rec |-> <<>>, next |-> i + 1]
    ELSE ParseFields(text, i, q)

RECURSIVE ReadFrom(_, _, _)
ReadFrom(text, i, q) ==
    IF i > Len(text) THEN <<>>
    ELSE LET r == ParseRecord(text, i, q)
         IN  <<r.rec>> \o ReadFrom(text, r.next, q)

\* list(csv.reader(f, quotechar=q)) for the text of f
Reader(text, q) == ReadFrom(text, 1, q)

\* list(csv.reader(f)): the default dialect, quotechar '"'
csv_reader(text) == Reader(text, DQ)

\* ------------------------------------------------------------------------
\* Bounds and inputs
\* ------------------------------------------------------------------------
MaxRows == 2       \* records appended to one log

NoIndex == [t |-> "none", n |-> 0]
Idx(i) == [t |-> "int", n |-> i]
Lst(vs) == [t |-> "list", s |-> vs]

Component(label, kind) == [label |-> label, kind |-> kind]

FLAG == <<"f", "l", "a", "g">>
USERNAME == <<"u", "s", "e", "r", "n", "a", "m", "e">>
TIMESTAMP == <<"t", "i", "m", "e", "s", "t", "a", "m", "p">>

\* samples handed to flag, flag options and user names
FlagIndexes == {Idx(i) : i \in {-1, 0, 1, MaxRows + 1}}

Args(fd, fo, fi, un) ==
    [flag_data |-> fd, flag_option |-> fo, flag_index |-> fi, username |-> un]

\* n copies of one sample
Rep(n, x) == Lst([i \in 1..n |-> x])

\* the component lists an application may hand to CSVLogger.setup
CSVComponentLists ==
    { <<Component(None, "Textbox")>>,
      <<Component(Str(<<"p">>), "Textbox")>>,
      <<Component(Str(<<COMMA>> \o FLAG \o <<COMMA>>), "Textbox")>>,
      <<Component(Str(<<"p">>), "Textbox"), Component(Str(<<>>), "Textbox")>> }

\* flag calls that append, for n components: a sample per component (a
\* plain text, a text with a line break, or no sample), one sample too few,
\* one too many; with flag option and user name, or without
AppendCalls(n) ==
    { Args(Rep(n, Str(<<"a">>)), Str(<<"g">>), NoIndex, Str(<<"u">>)),
      Args(Rep(n, Str(<<"a", LF, "b">>)), Str(<<"g">>), NoIndex, Str(<<"u">>)),
      Args(Rep(n, None), None, NoIndex, None),
      Args(Rep(n - 1, Str(<<"a">>)), Str(<<"g">>), NoIndex, None),
      Args(Rep(n + 1, Str(<<"a">>)), None, NoIndex, Str(<<"u">>)) }

\* flag calls that update the flag of a row
UpdateCalls ==
    {Args(None, Str(<<"g">>), fi, None) : fi \in FlagIndexes}
        \cup {Args(None, None, Idx(0), None)}

\* ------------------------------------------------------------------------
\* State
\* ------------------------------------------------------------------------
VARIABLES
    cls,          \* the callback class of this instance
    ready,        \* setup has been called
    components,   \* self.components
    logFile,      \* the log file on disk: [exists, data]
    infosFile,    \* dataset_infos.json in the local mirror: [exists, data]
    before,       \* the log file as it was when the last flag call began
    call,         \* the last flag call: its arguments and its outcome
    ops,          \* what the last flag call did to the mirror and the remote
    appended,     \* number of records flag calls have appended to the log
    rewrites,     \* number of row updates that have rewritten the log
    matched,      \* every flag call so far was given one value per component
    table,        \* log codec: the header and records to encode
    encoded,      \* log codec: the text the logger's writer produced
    decoded,      \* log codec: the rows the logger's reader gave back
    encryption_key,  \* self.encryption_key
    plain,        \* the same calls made without encryption key: file and outcome
    procs         \* the flag calls in progress, one per process: position and locals

vars == <<cls, ready, components, logFile, infosFile, before, call, ops,
          appended, rewrites, matched, table, encoded, decoded,
          encryption_key, plain, procs>>

NoFile == [exists |-> FALSE, data |-> <<>>]
File(data) == [exists |-> TRUE, data |-> data]
NoCall == [flag_data |-> None, flag_option |-> None, flag_index |-> NoIndex,
           username |-> None, err |-> "", ret |-> -1]

\* mutant of AttributeError: the read of an unbound attribute goes unnoticed
AttributeError_Silent == ""

\* the error of reading an attribute setup has not bound yet
AttributeError == "AttributeError"

\* ------------------------------------------------------------------------
\* Collaborators
\* ------------------------------------------------------------------------
\* str(idx) for the small indexes used here
Digits(n) == <<CASE n = 0 -> "0" [] n = 1 -> "1" [] n = 2 -> "2" [] n = 3 -> "3"
                 [] n = 4 -> "4" [] n = 5 -> "5" [] n = 6 -> "6" [] n = 7 -> "7"
                 [] n = 8 -> "8" [] n = 9 -> "9">>

\* component.save_flagged(dir, label, sample, key): the reference string the
\* sample serializer returns; a media component stores a file and returns
\* its path, any other component returns the value itself
save_flagged(component, sample) ==
    IF component.kind \in {"Audio", "Image"}
    THEN Str(<<"f", "/", "0">>)
    ELSE sample

\* str(datetime.datetime.now()): digits, "-", ":", "." and a space
str_now == Str(<<"1", ":", "0">>)

\* ------------------------------------------------------------------------
\* CSVLogger
\* ------------------------------------------------------------------------
\* component.label or f"component {idx}"
LabelOrDefault(component, idx) ==
    IF Truthy(component.label) THEN component.label
    ELSE Str(<<"c", "o", "m", "p", "o", "n", "e", "n", "t", " ">> \o Digits(idx))

\* mutant of CSVHeaders: the positional name counts the components from one
CSVHeaders_OneBased(comps) ==
    [i \in 1..Len(comps) |-> LabelOrDefault(comps[i], i)]
        \o <<Str(FLAG), Str(USERNAME), Str(TIMESTAMP)>>

\* headers, lines 167-174 (idx of enumerate is zero-based)
CSVHeaders(comps) ==
    [i \in 1..Len(comps) |-> LabelOrDefault(comps[i], i - 1)]
        \o <<Str(FLAG), Str(USERNAME), Str(TIMESTAMP)>>

OrEmpty(v) == IF v.t = "none" THEN Str(<<>>) ELSE v

Min(a, b) == IF a < b THEN a ELSE b

\* csv_data, lines 151-165: zip stops at the shorter of components, flag_data
CSVData(comps, flag_data, flag_option, username) ==
    [i \in 1..Min(Len(comps), Len(flag_data.s)) |->
        IF flag_data.s[i].t # "none" THEN save_flagged(comps[i], flag_data.s[i])
        ELSE Str(<<>>)]
        \o <<OrEmpty(flag_option), OrEmpty(username), str_now>>

\* header.index("flag"): position of the first cell equal to "flag", 0 if none
IndexOf(row, x) ==
    IF \E i \in 1..Len(row) : row[i] = x
    THEN CHOOSE i \in 1..Len(row) : row[i] = x /\ \A j \in 1..(i - 1) : row[j] # x
    ELSE 0

\* content[flag_index] on a Python list of length n: the one-based position,
\* 0 when the index is out of range
PyIndex(n, i) ==
    IF 0 <= i /\ i < n THEN i + 1
    ELSE IF i < 0 /\ -n <= i THEN n + i + 1
    ELSE 0

\* lines 181-185: the flag cell of content[flag_index] is set and the rows
\* are written again; col and row are one-based positions, 0 for none
ReplaceCell(content, col, row, flag_option) ==
    IF col = 0 THEN [err |-> "ValueError", out |-> <<>>]
    ELSE IF row = 0 \/ Len(content[row]) < col
         THEN [err |-> "IndexError", out |-> <<>>]
    ELSE [err |-> "",
          out |-> WriteRows(
              [r \in 1..Len(content) |->
                  [c \in 1..Len(content[r]) |->
                      IF r = row /\ c = col THEN flag_option
                      ELSE Str(content[r][c])]],
              SQ, "NONNUMERIC")]

\* lines 179-181: header = content[0], header.index("flag"), content[flag_index]
ReplaceInRows(content, flag_index, flag_option) ==
    IF content = <<>> THEN [err |-> "IndexError", out |-> <<>>]
    ELSE ReplaceCell(content, IndexOf(content[1], FLAG),
                     PyIndex(Len(content), flag_index.n), flag_option)

\* replace_flag_at_index, lines 176-185
replace_flag_at_index(file_content, flag_index, flag_option) ==
    ReplaceInRows(csv_reader(file_content), flag_index, flag_option)

\* lines 225-226: len(list(csv.reader(csvfile))) - 1
LineCount(data) == Len(csv_reader(Translate(data))) - 1

Outcome(file, err, ret) == [file |-> file, err |-> err, ret |-> ret]

\* the count is taken from the file the call has written
Counted(file) == Outcome(file, "", LineCount(file.data))

\* CSVLogger.flag without encryption key, lines 146-185 and 209-227
CSVLoggerFlag(file, comps, flag_data, flag_option, flag_index, username) ==
    LET is_new == ~file.exists
    IN  IF flag_index.t = "none"
        THEN IF flag_data.t # "list" THEN Outcome(file, "TypeError", -1)
             ELSE Counted(File(
                     file.data
                       \o (IF is_new THEN WriteRow(CSVHeaders(comps), SQ, "NONNUMERIC")
                           ELSE <<>>)
                       \o WriteRow(CSVData(comps, flag_data, flag_option, username),
                                   SQ, "NONNUMERIC")))
        ELSE IF is_new THEN Outcome(file, "FileNotFoundError", -1)
             ELSE LET r == replace_flag_at_index(Translate(file.data), flag_index,
                                                 flag_option)
                  IN  IF r.err # "" THEN Outcome(file, r.err, -1)
                      ELSE Counted(File(r.out))

\* ------------------------------------------------------------------------
\* Actions
\* ------------------------------------------------------------------------
InitCallback ==
    /\ ready = FALSE
    /\ components = <<>>
    /\ logFile = NoFile
    /\ infosFile = NoFile
    /\ before = NoFile
    /\ call = NoCall
    /\ ops = <<>>
    /\ appended = 0
    /\ rewrites = 0
    /\ matched = TRUE
    /\ encryption_key = None
    /\ plain = [file |-> NoFile, err |-> "", ret |-> -1]
    /\ procs = <<>>

InitCommon ==
    /\ InitCallback
    /\ table = <<>>
    /\ encoded = NoFile
    /\ decoded = NoFile

InitCSV == cls = "CSVLogger" /\ InitCommon

\* CSVLogger.setup, lines 128-137, called as setup(components, flagging_dir):
\* encryption_key defaults to None
CSVSetup ==
    /\ cls = "CSVLogger" /\ ~ready
    /\ \E comps \in CSVComponentLists : components' = comps
    /\ encryption_key' = None
    /\ ready' = TRUE
    /\ UNCHANGED <<cls, logFile, infosFile, before, call, ops, appended, rewrites,
                   matched, table, encoded, decoded, plain, procs>>

\* CSVLogger.flag, lines 139-227, on an instance without encryption key; before
\* setup the read of self.flagging_dir (line 146) raises AttributeError
CSVFlag ==
    /\ cls = "CSVLogger" /\ ~Truthy(encryption_key)
    /\ \E in \in AppendCalls(Len(components)) \cup UpdateCalls :
         /\ in.flag_index.t = "none" => appended < MaxRows
         /\ \E r \in {IF ready
                      THEN CSVLoggerFlag(logFile, components, in.flag_data, in.flag_option,
                                         in.flag_index, in.username)
                      ELSE Outcome(logFile, AttributeError, -1)} :
             LET wrote == in.flag_index.t = "none" /\ r.file # logFile
                 rewrote == in.flag_index.t # "none" /\ r.err = ""
             IN  /\ logFile' = r.file
                 /\ before' = logFile
                 /\ call' = [flag_data |-> in.flag_data, flag_option |-> in.flag_option,
                             flag_index |-> in.flag_index, username |-> in.username,
                             err |-> r.err, ret |-> r.ret]
                 /\ appended' = IF wrote THEN appended + 1 ELSE appended
                 /\ rewrites' = IF rewrote THEN rewrites + 1 ELSE rewrites
                 /\ matched' = (matched /\ (ready => /\ in.flag_data.t = "list"
                                                       /\ Len(in.flag_data.s) = Len(components)))
    /\ UNCHANGED <<cls, ready, components, infosFile, ops, table, encoded, decoded,
                   encryption_key, plain, procs>>

NextCSV == CSVSetup \/ CSVFlag

SpecCSV == InitCSV /\ [][NextCSV]_vars

\* ------------------------------------------------------------------------
\* CSVLogger with an encryption key
\* ------------------------------------------------------------------------
\* open(log_filepath, mode, encoding="utf-8"), lines 190 and 204: a binary
\* mode takes no encoding argument, open raises ValueError and neither
\* creates nor truncates the file
open_error(mode, encoding) ==
    IF mode \in {"rb", "wb"} /\ encoding THEN "ValueError" ELSE ""

\* encryptor.encrypt(key, source): the ciphertext of source under key
encrypt(key, source) == <<"#">> \o TextOf(key) \o <<"#">> \o source

\* encryptor.decrypt(key, source): the plaintext, if source is a ciphertext
\* under key
decrypt(key, source) ==
    LET n == Len(TextOf(key)) + 2
    IN  IF Len(source) >= n /\ SubSeq(source, 1, n) = encrypt(key, <<>>)
        THEN [err |-> "", out |-> SubSeq(source, n + 1, Len(source))]
        ELSE [err |-> "ValueError", out |-> <<>>]

\* the keys an application hands to setup with encryption
EncryptionKeys == {Str(<<"k">>)}

\* lines 189-198: what output holds once the existing log has been read,
\* decrypted and, for a row update, rewritten by replace_flag_at_index
EncryptedContent(decrypted, flag_option, flag_index) ==
    IF decrypted.err # "" \/ flag_index.t = "none" THEN decrypted
    ELSE replace_flag_at_index(Translate(decrypted.out), flag_index, flag_option)

\* lines 199-203: the rows an append writes to output
EncryptedRows(is_new, comps, flag_data, flag_option, username) ==
    (IF is_new THEN WriteRow(CSVHeaders(comps), SQ, "NONNUMERIC") ELSE <<>>)
        \o WriteRow(CSVData(comps, flag_data, flag_option, username), SQ, "NONNUMERIC")

\* lines 204-207 and 225-227: output is encrypted and replaces the file
EncryptedWrite(file, key, content, rows) ==
    IF content.err # "" THEN Outcome(file, content.err, -1)
    ELSE IF open_error("wb", TRUE) # "" THEN Outcome(file, open_error("wb", TRUE), -1)
    ELSE Counted(File(encrypt(key, content.out \o rows)))

\* CSVLogger.flag with a truthy self.encryption_key, lines 146-207, 225-227
CSVLoggerFlagEncrypted(file, comps, key, flag_data, flag_option, flag_index, username) ==
    IF flag_index.t = "none" /\ flag_data.t # "list" THEN Outcome(file, "TypeError", -1)
    ELSE IF file.exists /\ open_error("rb", TRUE) # ""
         THEN Outcome(file, open_error("rb", TRUE), -1)
    ELSE EncryptedWrite(
             file, key,
             IF file.exists
             THEN EncryptedContent(decrypt(key, file.data), flag_option, flag_index)
             ELSE [err |-> "", out |-> <<>>],
             IF flag_index.t = "none"
             THEN EncryptedRows(~file.exists, comps, flag_data, flag_option, username)
             ELSE <<>>)

InitEncrypted == cls = "CSVLogger" /\ InitCommon

\* CSVLogger.setup, lines 128-137, called as
\* setup(components, flagging_dir, encryption_key)
CSVSetupEncrypted ==
    /\ cls = "CSVLogger" /\ ~ready
    /\ \E comps \in CSVComponentLists : components' = comps
    /\ \E key \in EncryptionKeys : encryption_key' = key
    /\ ready' = TRUE
    /\ UNCHANGED <<cls, logFile, infosFile, before, call, ops, appended, rewrites,
                   matched, table, encoded, decoded, plain, procs>>

\* CSVLogger.flag, lines 139-227, on an instance set up with an encryption
\* key; plain follows the same calls on an instance set up without key
CSVFlagEncrypted ==
    /\ cls = "CSVLogger" /\ ready /\ Truthy(encryption_key)
    /\ \E in \in AppendCalls(Len(components)) \cup UpdateCalls :
         /\ in.flag_index.t = "none" => appended < MaxRows
         /\ \E r \in {CSVLoggerFlagEncrypted(logFile, components, encryption_key,
                                            in.flag_data, in.flag_option,
                                            in.flag_index, in.username)},
               ref \in {CSVLoggerFlag(plain.file, components, in.flag_data,
                                      in.flag_option, in.flag_index, in.username)} :
             /\ logFile' = r.file
             /\ before' = logFile
             /\ call' = [flag_data |-> in.flag_data, flag_option |-> in.flag_option,
                         flag_index |-> in.flag_index, username |-> in.username,
                         err |-> r.err, ret |-> r.ret]
             /\ plain' = ref
             /\ appended' = IF in.flag_index.t = "none" /\ ref.file # plain.file
                            THEN appended + 1 ELSE appended
             /\ rewrites' = IF in.flag_index.t # "none" /\ ref.err = ""
                            THEN rewrites + 1 ELSE rewrites
    /\ UNCHANGED <<cls, ready, components, infosFile, ops, matched, table, encoded,
                   decoded, encryption_key, procs>>

NextEncrypted == CSVSetupEncrypted \/ CSVFlag \/ CSVFlagEncrypted

SpecEncrypted == InitEncrypted /\ [][NextEncrypted]_vars

\* ------------------------------------------------------------------------
\* CSVLogger.flag with flag_index, one file operation at a time: the process
\* may stop between any two of them
\* ------------------------------------------------------------------------
\* a flag call in progress: where it stands, its arguments and its locals
Proc(pc, in, is_new, content) ==
    [pc |-> pc, in |-> in, is_new |-> is_new, content |-> content]

Result(in, err, ret) ==
    [flag_data |-> in.flag_data, flag_option |-> in.flag_option,
     flag_index |-> in.flag_index, username |-> in.username, err |-> err, ret |-> ret]

\* lines 218-220: the log is read and replace_flag_at_index builds the new
\* content; an error here ends the call before the log is opened for writing
UpdateRead ==
    /\ cls = "CSVLogger" /\ ready /\ ~Truthy(encryption_key)
    /\ procs = <<>> /\ logFile.exists
    /\ \E in \in UpdateCalls :
         \E r \in {replace_flag_at_index(Translate(logFile.data), in.flag_index,
                                         in.flag_option)} :
             /\ before' = logFile
             /\ IF r.err = ""
                THEN /\ procs' = <<Proc("read", in, FALSE, r.out)>>
                     /\ call' = call
                ELSE /\ procs' = procs
                     /\ call' = Result(in, r.err, -1)
    /\ UNCHANGED <<cls, ready, components, logFile, infosFile, ops, appended,
                   rewrites, matched, table, encoded, decoded, encryption_key, plain>>

\* lines 221-223: open(log_filepath, "w", ...) truncates the log
UpdateOpen ==
    /\ procs # <<>> /\ procs[1].pc = "read"
    /\ logFile' = File(<<>>)
    /\ procs' = <<[procs[1] EXCEPT !.pc = "opened"]>>
    /\ UNCHANGED <<cls, ready, components, infosFile, before, call, ops, appended,
                   rewrites, matched, table, encoded, decoded, encryption_key, plain>>

\* line 224 and the end of the with block: the new content reaches the file
UpdateWrite ==
    /\ procs # <<>> /\ procs[1].pc = "opened"
    /\ logFile' = File(procs[1].content)
    /\ procs' = <<[procs[1] EXCEPT !.pc = "written"]>>
    /\ UNCHANGED <<cls, ready, components, infosFile, before, call, ops, appended,
                   rewrites, matched, table, encoded, decoded, encryption_key, plain>>

\* lines 225-227: the rows are counted and the call returns
UpdateReturn ==
    /\ procs # <<>> /\ procs[1].pc = "written"
    /\ call' = Result(procs[1].in, "", LineCount(logFile.data))
    /\ rewrites' = rewrites + 1
    /\ procs' = <<>>
    /\ UNCHANGED <<cls, ready, components, logFile, infosFile, before, ops, appended,
                   matched, table, encoded, decoded, encryption_key, plain>>

\* the process stops in the middle of the call and takes no further step
Crash ==
    /\ procs # <<>> /\ procs[1].pc \in {"read", "opened", "written"}
    /\ procs' = <<[procs[1] EXCEPT !.pc = "stopped"]>>
    /\ UNCHANGED <<cls, ready, components, logFile, infosFile, before, call, ops,
                   appended, rewrites, matched, table, encoded, decoded,
                   encryption_key, plain>>

\* a flag call that runs to its end while no other call is in progress
CSVFlagToEnd == procs = <<>> /\ CSVFlag

\* calls that run to their end, and row updates that may stop on the way
NextCrash ==
    \/ CSVSetup
    \/ CSVFlagToEnd
    \/ UpdateRead \/ UpdateOpen \/ UpdateWrite \/ UpdateReturn
    \/ Crash

SpecCrash == InitCSV /\ [][NextCrash]_vars

\* ------------------------------------------------------------------------
\* CSVLogger.flag without flag_index, called by two processes on the same
\* directory, one file operation at a time
\* ------------------------------------------------------------------------
\* the appends the two processes make, for n components
RaceCalls(n) ==
    { Args(Rep(n, Str(<<"a">>)), Str(<<"g">>), NoIndex, Str(<<"u">>)),
      Args(Rep(n, None), None, NoIndex, None) }

\* procs with process p at pc, its other fields as they are
At(p, pc) == [procs EXCEPT ![p].pc = pc]

\* both processes enter flag while the directory holds no log file
RaceStart ==
    /\ cls = "CSVLogger" /\ ready /\ ~Truthy(encryption_key)
    /\ procs = <<>> /\ ~logFile.exists
    /\ \E in1 \in RaceCalls(Len(components)), in2 \in RaceCalls(Len(components)) :
         procs' = <<Proc("start", in1, FALSE, <<>>), Proc("start", in2, FALSE, <<>>)>>
    /\ UNCHANGED <<cls, ready, components, logFile, infosFile, before, call, ops,
                   appended, rewrites, matched, table, encoded, decoded,
                   encryption_key, plain>>

\* line 148: is_new = not os.path.exists(log_filepath)
AppendExists ==
    \E p \in DOMAIN procs :
        /\ procs[p].pc = "start"
        /\ procs' = [At(p, "checked") EXCEPT ![p].is_new = ~logFile.exists]
        /\ UNCHANGED <<cls, ready, components, logFile, infosFile, before, call, ops,
                       appended, rewrites, matched, table, encoded, decoded,
                       encryption_key, plain>>

\* line 210: open(log_filepath, "a", ...) creates the file if there is none
AppendOpen ==
    \E p \in DOMAIN procs :
        /\ procs[p].pc = "checked"
        /\ logFile' = File(logFile.data)
        /\ procs' = At(p, "opened")
        /\ UNCHANGED <<cls, ready, components, infosFile, before, call, ops,
                       appended, rewrites, matched, table, encoded, decoded,
                       encryption_key, plain>>

\* lines 214-215: writer.writerow(headers) if is_new; the row goes to the
\* buffer of the file object
AppendHeader ==
    \E p \in DOMAIN procs :
        /\ procs[p].pc = "opened"
        /\ procs' = [At(p, "header") EXCEPT ![p].content =
                         IF procs[p].is_new
                         THEN @ \o WriteRow(CSVHeaders(components), SQ, "NONNUMERIC")
                         ELSE @]
        /\ UNCHANGED <<cls, ready, components, logFile, infosFile, before, call, ops,
                       appended, rewrites, matched, table, encoded, decoded,
                       encryption_key, plain>>

\* line 216: writer.writerow(csv_data), to the buffer as well
AppendRecord ==
    \E p \in DOMAIN procs :
        /\ procs[p].pc = "header"
        /\ procs' = [At(p, "record") EXCEPT ![p].content =
                         @ \o WriteRow(CSVData(components, procs[p].in.flag_data,
                                               procs[p].in.flag_option,
                                               procs[p].in.username),
                                       SQ, "NONNUMERIC")]
        /\ UNCHANGED <<cls, ready, components, logFile, infosFile, before, call, ops,
                       appended, rewrites, matched, table, encoded, decoded,
                       encryption_key, plain>>

\* the file object writes its buffer to the end of the file when the buffer
\* is full, which for long rows is before the with block ends
AppendFlush ==
    \E p \in DOMAIN procs :
        /\ procs[p].pc \in {"header", "record"} /\ procs[p].content # <<>>
        /\ logFile' = File(logFile.data \o procs[p].content)
        /\ procs' = [procs EXCEPT ![p].content = <<>>]
        /\ UNCHANGED <<cls, ready, components, infosFile, before, call, ops,
                       appended, rewrites, matched, table, encoded, decoded,
                       encryption_key, plain>>

\* the end of the with block, line 216: the buffer is written and the file
\* closed
AppendClose ==
    \E p \in DOMAIN procs :
        /\ procs[p].pc = "record"
        /\ logFile' = File(logFile.data \o procs[p].content)
        /\ procs' = [At(p, "closed") EXCEPT ![p].content = <<>>]
        /\ appended' = appended + 1
        /\ UNCHANGED <<cls, ready, components, infosFile, before, call, ops,
                       rewrites, matched, table, encoded, decoded,
                       encryption_key, plain>>

\* lines 225-227: the rows are counted and the call returns
AppendReturn ==
    \E p \in DOMAIN procs :
        /\ procs[p].pc = "closed"
        /\ call' = Result(procs[p].in, "", LineCount(logFile.data))
        /\ procs' = At(p, "done")
        /\ UNCHANGED <<cls, ready, components, logFile, infosFile, before, ops,
                       appended, rewrites, matched, table, encoded, decoded,
                       encryption_key, plain>>

NextRace ==
    \/ CSVSetup
    \/ RaceStart
    \/ AppendExists \/ AppendOpen \/ AppendHeader \/ AppendRecord
    \/ AppendFlush \/ AppendClose \/ AppendReturn

SpecRace == InitCSV /\ [][NextRace]_vars

\* ------------------------------------------------------------------------
\* SimpleCSVLogger
\* ------------------------------------------------------------------------
\* csv_data, lines 92-101: what save_flagged returns for each pair of zip
SimpleData(comps, flag_data) ==
    [i \in 1..Min(Len(comps), Len(flag_data.s)) |->
        save_flagged(comps[i], flag_data.s[i])]

\* SimpleCSVLogger.flag, lines 89-109: no header is ever written, flag_option,
\* flag_index and username are not read
SimpleCSVLoggerFlag(file, comps, flag_data) ==
    IF flag_data.t # "list" THEN Outcome(file, "TypeError", -1)
    ELSE Counted(File(file.data
                        \o WriteRow(SimpleData(comps, flag_data), SQ, "NONNUMERIC")))

\* flag calls on a SimpleCSVLogger with n components
SimpleCalls(n) ==
    AppendCalls(n) \cup {Args(Rep(n, Str(<<"a">>)), Str(<<"g">>), Idx(0), None)}

InitSimple == cls = "SimpleCSVLogger" /\ InitCommon

\* SimpleCSVLogger.setup, lines 77-80
SimpleSetup ==
    /\ cls = "SimpleCSVLogger" /\ ~ready
    /\ \E comps \in CSVComponentLists : components' = comps
    /\ ready' = TRUE
    /\ UNCHANGED <<cls, logFile, infosFile, before, call, ops, appended, rewrites,
                   matched, table, encoded, decoded, encryption_key, plain, procs>>

\* SimpleCSVLogger.flag, lines 82-109; before setup the read of
\* self.flagging_dir (line 89) raises AttributeError
SimpleFlag ==
    /\ cls = "SimpleCSVLogger"
    /\ appended < MaxRows
    /\ \E in \in SimpleCalls(Len(components)) :
         \E r \in {IF ready THEN SimpleCSVLoggerFlag(logFile, components, in.flag_data)
                  ELSE Outcome(logFile, AttributeError, -1)} :
             /\ logFile' = r.file
             /\ before' = logFile
             /\ call' = [flag_data |-> in.flag_data, flag_option |-> in.flag_option,
                         flag_index |-> in.flag_index, username |-> in.username,
                         err |-> r.err, ret |-> r.ret]
             /\ appended' = IF r.file # logFile THEN appended + 1 ELSE appended
    /\ UNCHANGED <<cls, ready, components, infosFile, ops, rewrites, matched, table,
                   encoded, decoded, encryption_key, plain, procs>>

NextSimple == SimpleSetup \/ SimpleFlag

SpecSimple == InitSimple /\ [][NextSimple]_vars

\* ------------------------------------------------------------------------
\* HuggingFaceDatasetSaver
\* ------------------------------------------------------------------------
\* self.path_to_dataset_repo, the URL huggingface_hub.create_repo returned
path_to_dataset_repo == <<"u", "r", "l">>

IsMedia(component) == component.kind \in {"Audio", "Image"}

\* component.label + " file"
FileLabel(component) == Str(component.label.s \o <<" ", "f", "i", "l", "e">>)

\* "{}/resolve/main/{}".format(self.path_to_dataset_repo, filepath)
ResolveUrl(filepath) ==
    Str(path_to_dataset_repo
          \o <<"/", "r", "e", "s", "o", "l", "v", "e", "/", "m", "a", "i", "n", "/">>
          \o TextOf(filepath))

\* "Flagged sample #{}".format(line_count)
CommitMessage(line_count) ==
    <<"F", "l", "a", "g", "g", "e", "d", " ", "s", "a", "m", "p", "l", "e", " ", "#">>
        \o Digits(line_count)

\* the header cells one (component, sample) pair contributes, lines 326-333
HFHeaderCells(component) ==
    <<component.label, component.label>>
        \o (IF IsMedia(component) THEN <<FileLabel(component)>> ELSE <<>>)

\* the record cells one (component, sample) pair contributes, lines 352-359
HFDataCells(component, sample) ==
    <<save_flagged(component, sample)>>
        \o (IF IsMedia(component) THEN <<ResolveUrl(save_flagged(component, sample))>>
            ELSE <<>>)

RECURSIVE Concat(_)
Concat(ss) == IF ss = <<>> THEN <<>> ELSE Head(ss) \o Concat(Tail(ss))

\* headers, lines 323-341
HFHeaders(comps, flag_data) ==
    Concat([i \in 1..Min(Len(comps), Len(flag_data.s)) |-> HFHeaderCells(comps[i])])
        \o <<Str(FLAG)>>

\* csv_data, lines 350-360
HFData(comps, flag_data, flag_option) ==
    Concat([i \in 1..Min(Len(comps), Len(flag_data.s)) |->
                HFDataCells(comps[i], flag_data.s[i])])
        \o <<OrEmpty(flag_option)>>

\* infos["flagged"]["features"], lines 308, 328-345: the keys in insertion
\* order, each with the "_type" of its entry; a key set again keeps its place
DictSet(d, k, v) ==
    IF \E i \in 1..Len(d) : d[i].key = k
    THEN [i \in 1..Len(d) |-> IF d[i].key = k THEN [key |-> k, type |-> v] ELSE d[i]]
    ELSE Append(d, [key |-> k, type |-> v])

RECURSIVE HFFeatures(_, _, _)
HFFeatures(comps, n, d) ==
    IF n = 0 THEN d
    ELSE LET d0 == HFFeatures(comps, n - 1, d)
             d1 == DictSet(d0, comps[n].label, "Value")
         IN  IF IsMedia(comps[n]) THEN DictSet(d1, FileLabel(comps[n]), comps[n].kind)
             ELSE d1

HFInfos(comps, flag_data) ==
    DictSet(HFFeatures(comps, Min(Len(comps), Len(flag_data.s)), <<>>), Str(FLAG), "Value")

Event(op, log) == [op |-> op, log |-> log, msg |-> <<>>]
Push(log, msg) == [op |-> "push", log |-> log, msg |-> msg]

HFOutcome(file, infos, err, ret, trace) ==
    [file |-> file, infos |-> infos, err |-> err, ret |-> ret, ops |-> trace]

\* mutant of HFLineCount: the header row is counted as a sample
HFLineCount_WithHeader(data) == Len(csv_reader(Translate(data)))

\* len(list(csv.reader(csvfile))) - 1, lines 366-367
HFLineCount(data) == Len(csv_reader(Translate(data))) - 1

\* mutant of InfosAfter: every flag call dumps the infos it has built
InfosAfter_Always(is_new, infos, comps, flag_data) ==
    File(HFInfos(comps, flag_data))

\* lines 363-364: json.dump(infos, ...) only when the call found no log file
InfosAfter(is_new, infos, comps, flag_data) ==
    IF is_new THEN File(HFInfos(comps, flag_data)) ELSE infos

\* mutant of PushFailed: the record is taken back when the push fails
PushFailed_RolledBack(file, written, infos, pull, count) ==
    HFOutcome(file, infos, "OSError", -1,
              pull \o <<Event("write", written), Push(written, CommitMessage(count)),
                        Event("push failed", written), Event("write", file)>>)

\* line 369: push_to_hub raises; the error leaves flag, the mirror stays as
\* written
PushFailed(file, written, infos, pull, count) ==
    HFOutcome(written, infos, "OSError", -1,
              pull \o <<Event("write", written), Push(written, CommitMessage(count)),
                        Event("push failed", written)>>)

\* HuggingFaceDatasetSaver.flag, lines 305-371.  pullOk, saveOk and pushOk are
\* the outcomes of repo.git_pull, component.save_flagged and repo.push_to_hub.
HFSaverFlag(file, infos, comps, flag_data, flag_option, pullOk, saveOk, pushOk) ==
    LET is_new  == ~file.exists
        opened  == File(file.data)
        pull    == <<Event("pull", file)>>
        pairs   == Min(Len(comps), Len(flag_data.s))
        nolabel == \E i \in 1..pairs : IsMedia(comps[i]) /\ comps[i].label.t = "none"
        header  == IF is_new THEN WriteRow(HFHeaders(comps, flag_data), DQ, "MINIMAL")
                   ELSE <<>>
        withHeader == File(file.data \o header)
        written == File(withHeader.data
                          \o WriteRow(HFData(comps, flag_data, flag_option), DQ, "MINIMAL"))
        newInfos == InfosAfter(is_new, infos, comps, flag_data)
        count   == HFLineCount(written.data)
    IN  IF ~pullOk THEN HFOutcome(file, infos, "OSError", -1, <<Event("pull failed", file)>>)
        ELSE IF flag_data.t # "list"
             THEN HFOutcome(opened, infos, "TypeError", -1, pull \o <<Event("write", opened)>>)
        ELSE IF is_new /\ nolabel
             THEN HFOutcome(opened, infos, "TypeError", -1, pull \o <<Event("write", opened)>>)
        ELSE IF pairs > 0 /\ ~saveOk
             THEN HFOutcome(withHeader, infos, "SerializerError", -1,
                            pull \o <<Event("write", withHeader)>>)
        ELSE IF ~pushOk THEN PushFailed(file, written, newInfos, pull, count)
        ELSE HFOutcome(written, newInfos, "", count,
                       pull \o <<Event("write", written),
                                 Push(written, CommitMessage(count))>>)

\* the component lists an application may hand to HuggingFaceDatasetSaver.setup
HFComponentLists ==
    { <<Component(Str(<<"p">>), "Textbox")>>,
      <<Component(None, "Textbox")>>,
      <<Component(Str(<<"i">>), "Image")>>,
      <<Component(Str(<<"p">>), "Textbox"), Component(Str(<<"s">>), "Audio")>> }

\* flag calls on the remote variant, for n components
HFCalls(n) ==
    { Args(Rep(n, Str(<<"a">>)), Str(<<"g">>), NoIndex, Str(<<"u">>)),
      Args(Rep(n, Str(<<"a", LF, "b">>)), None, NoIndex, None),
      Args(Rep(n - 1, Str(<<"a">>)), Str(<<"g">>), NoIndex, None),
      Args(Rep(n + 1, Str(<<"a">>)), Str(<<"g">>), NoIndex, None),
      Args(Rep(n, Str(<<"a">>)), Str(<<"g">>), Idx(0), None),
      Args(None, Str(<<"g">>), Idx(0), None) }

\* at most one collaborator fails in a call
Failures == { <<TRUE, TRUE, TRUE>>, <<FALSE, TRUE, TRUE>>, <<TRUE, FALSE, TRUE>>,
              <<TRUE, TRUE, FALSE>> }

InitHF == cls = "HuggingFaceDatasetSaver" /\ InitCommon

\* HuggingFaceDatasetSaver.setup, lines 263-296, on a dataset without log
HFSetup ==
    /\ cls = "HuggingFaceDatasetSaver" /\ ~ready
    /\ \E comps \in HFComponentLists : components' = comps
    /\ ready' = TRUE
    /\ UNCHANGED <<cls, logFile, infosFile, before, call, ops, appended, rewrites,
                   matched, table, encoded, decoded,
                   encryption_key, plain, procs>>

\* HuggingFaceDatasetSaver.flag, lines 298-371; before setup the read of
\* self.repo (line 305) raises AttributeError
HFFlag ==
    /\ cls = "HuggingFaceDatasetSaver"
    /\ appended < MaxRows
    /\ \E in \in HFCalls(Len(components)), f \in Failures :
         \E r \in {IF ready
                  THEN HFSaverFlag(logFile, infosFile, components, in.flag_data,
                                   in.flag_option, f[1], f[2], f[3])
                  ELSE HFOutcome(logFile, infosFile, AttributeError, -1, <<>>)} :
             /\ logFile' = r.file
             /\ infosFile' = r.infos
             /\ before' = logFile
             /\ ops' = r.ops
             /\ call' = [flag_data |-> in.flag_data, flag_option |-> in.flag_option,
                         flag_index |-> in.flag_index, username |-> in.username,
                         err |-> r.err, ret |-> r.ret]
             /\ appended' = IF \E i \in 1..Len(r.ops) : r.ops[i].op = "push"
                            THEN appended + 1 ELSE appended
             /\ matched' = (matched /\ (ready => /\ in.flag_data.t = "list"
                                                   /\ Len(in.flag_data.s) = Len(components)))
    /\ UNCHANGED <<cls, ready, components, rewrites, table, encoded, decoded,
                   encryption_key, plain, procs>>

NextHF == HFSetup \/ HFFlag

SpecHF == InitHF /\ [][NextHF]_vars

\* ------------------------------------------------------------------------
\* Any of the three callbacks
\* ------------------------------------------------------------------------
InitCallbacks ==
    /\ cls \in {"SimpleCSVLogger", "CSVLogger", "HuggingFaceDatasetSaver"}
    /\ InitCommon

NextCallbacks == NextSimple \/ NextCSV \/ NextHF

SpecCallbacks == InitCallbacks /\ [][NextCallbacks]_vars

\* ------------------------------------------------------------------------
\* The log codec of CSVLogger on its own: what the logger writes for a header
\* and records, and what it reads back from that text
\* ------------------------------------------------------------------------
CodecCells == {Str(<<"a">>), Str(<<COMMA>>), Str(<<SQ>>), Str(<<DQ>>), Str(<<"a", LF>>)}

CodecRows == {<<c>> : c \in CodecCells} \cup {<<c, d>> : c \in CodecCells, d \in CodecCells}

\* a header, alone or with one record of the same cardinality
CodecTables ==
    {<<h>> : h \in CodecRows}
        \cup {<<t[1], t[2]>> : t \in {x \in CodecRows \X CodecRows : Len(x[1]) = Len(x[2])}}

\* csv.writer(f, quoting=csv.QUOTE_NONNUMERIC, quotechar="'"), lines 183-184,
\* 211-216
LoggerEncode(rows) == WriteRows(rows, SQ, "NONNUMERIC")

\* list(csv.reader(f)) on the text read back from the file, lines 177-178,
\* 218-219, 225-226
LoggerDecode(text) == csv_reader(Translate(text))

InitCodec ==
    /\ cls = "codec"
    /\ InitCallback
    /\ table \in CodecTables
    /\ encoded = NoFile
    /\ decoded = NoFile

Encode ==
    /\ cls = "codec" /\ ~encoded.exists
    /\ encoded' = File(LoggerEncode(table))
    /\ UNCHANGED <<cls, ready, components, logFile, infosFile, before, call, ops,
                   appended, rewrites, matched, table, decoded,
                   encryption_key, plain, procs>>

DecodeBack ==
    /\ cls = "codec" /\ encoded.exists /\ ~decoded.exists
    /\ decoded' = File(LoggerDecode(encoded.data))
    /\ UNCHANGED <<cls, ready, components, logFile, infosFile, before, call, ops,
                   appended, rewrites, matched, table, encoded,
                   encryption_key, plain, procs>>

NextCodec == Encode \/ DecodeBack

SpecCodec == InitCodec /\ [][NextCodec]_vars

\* ------------------------------------------------------------------------
\* Properties of CSVLogger
\* ------------------------------------------------------------------------
\* the table a log holds, read in the dialect it is written in
Decode(data) == Reader(Translate(data), SQ)

\* number of data rows of a log (header excluded)
DataRows(file) == Len(Decode(file.data)) - 1

IsAppend == call.flag_index.t = "none" /\ call.flag_data.t = "list"
IsUpdate == call.flag_index.t = "int"

\* the field names the components bound at setup stand for
ExpectedHeader ==
    [i \in 1..Len(components) |->
        IF components[i].label.t = "str" /\ components[i].label.s # <<>>
        THEN components[i].label.s
        ELSE <<"c", "o", "m", "p", "o", "n", "e", "n", "t", " ">> \o Digits(i - 1)]
      \o <<FLAG, USERNAME, TIMESTAMP>>

\* the column of the flag cell in a row of the log
FlagColumn == Len(components) + 1

\* C1: on a fresh directory the k-th flag call without flag_index returns k,
\* and the log then holds the header row followed by exactly k data rows.
C1_AppendReturnsCount ==
    (cls = "CSVLogger" /\ IsAppend /\ rewrites = 0) =>
        /\ call.err = ""
        /\ call.ret = appended
        /\ DataRows(logFile) = appended

\* C2: a flag call with flag_index i on a log of N data rows, 0 <= i < N,
\* succeeds and sets the flag cell of data row i (header excluded, zero-based)
\* to the flag option; the header still names the column "flag".
C2_UpdateAddressesDataRow ==
    (cls = "CSVLogger" /\ IsUpdate /\ before.exists
        /\ 0 <= call.flag_index.n /\ call.flag_index.n < DataRows(before)) =>
        /\ call.err = ""
        /\ Len(Decode(logFile.data)) = Len(Decode(before.data))
        /\ Decode(logFile.data)[call.flag_index.n + 2][FlagColumn] = TextOf(call.flag_option)
        /\ Decode(logFile.data)[1][FlagColumn] = FLAG

\* C3: a successful row update leaves every byte of the log as it was, except
\* the flag cell of the addressed data row, and returns the unchanged row count.
C3_UpdateChangesOnlyFlagCell ==
    (cls = "CSVLogger" /\ IsUpdate /\ call.err = ""
        /\ 0 <= call.flag_index.n /\ call.flag_index.n < DataRows(before)) =>
        LET old == Decode(before.data)
            r   == call.flag_index.n + 2
            pre  == WriteRows([k \in 1..(r - 1) |-> [c \in 1..Len(old[k]) |-> Str(old[k][c])]],
                              SQ, "NONNUMERIC")
            row  == WriteRow([c \in 1..Len(old[r]) |->
                                 IF c = FlagColumn THEN OrEmpty(call.flag_option)
                                 ELSE Str(old[r][c])], SQ, "NONNUMERIC")
        IN  /\ before.data = WriteRows([k \in 1..Len(old) |->
                                 [c \in 1..Len(old[k]) |-> Str(old[k][c])]], SQ, "NONNUMERIC")
            /\ SubSeq(logFile.data, 1, Len(pre)) = SubSeq(before.data, 1, Len(pre))
            /\ SubSeq(logFile.data, Len(pre) + 1, Len(pre) + Len(row)) = row
            /\ SubSeq(logFile.data, Len(pre) + Len(row) + 1, Len(logFile.data))
                 = SubSeq(before.data, Len(before.data) - (Len(logFile.data) - Len(pre) - Len(row)) + 1,
                          Len(before.data))
            /\ Len(Decode(logFile.data)) = Len(old)
            /\ call.ret = DataRows(before)

\* C4: a flag call with a flag_index outside 0..N-1 on a log of N data rows
\* fails with IndexError and leaves the log file as it was.
C4_OutOfRangeIndexError ==
    (cls = "CSVLogger" /\ IsUpdate /\ before.exists
        /\ ~(0 <= call.flag_index.n /\ call.flag_index.n < DataRows(before))) =>
        /\ call.err = "IndexError"
        /\ logFile = before

\* C8: an append to a log file that does not exist writes the header row,
\* which names the components bound at setup (or "component {index}")
\* followed by flag, username, timestamp, and then the record; an append to
\* an existing log file adds one record and no header.
C8_HeaderWrittenOnce ==
    (cls = "CSVLogger" /\ IsAppend /\ call.err = "") =>
        LET added == Decode(SubSeq(logFile.data, Len(before.data) + 1, Len(logFile.data)))
        IN  /\ SubSeq(logFile.data, 1, Len(before.data)) = before.data
            /\ IF before.exists
               THEN Len(added) = 1 /\ (appended > 0 => added[1] # ExpectedHeader)
               ELSE Len(added) = 2 /\ added[1] = ExpectedHeader
            /\ (rewrites = 0 =>
                  /\ Decode(logFile.data)[1] = ExpectedHeader
                  /\ \A k \in 2..Len(Decode(logFile.data)) :
                        Decode(logFile.data)[k] # ExpectedHeader)

C8_Witness ==
    /\ cls = "CSVLogger" /\ IsAppend /\ call.err = ""
    /\ before.exists /\ appended = 2
    /\ components[1].label = None

\* C10: an append whose flag_data has not one value per component fails with
\* SchemaError and leaves the log file as it was.
C10_CardinalityMismatchFails ==
    (cls = "CSVLogger" /\ IsAppend /\ Len(call.flag_data.s) # Len(components)) =>
        /\ call.err = "SchemaError"
        /\ logFile = before

\* C11: every flag call made with an encryption key succeeds with the return
\* value of the same call made without key, and the file then on disk is one
\* ciphertext whose plaintext decodes to the header and rows of the plain log.
C11_EncryptedEquivalent ==
    (cls = "CSVLogger" /\ ready /\ Truthy(encryption_key) /\ call # NoCall
        /\ plain.err = "" /\ plain.file.exists) =>
        /\ call.err = ""
        /\ call.ret = plain.ret
        /\ logFile.exists
        /\ decrypt(encryption_key, logFile.data).err = ""
        /\ Decode(decrypt(encryption_key, logFile.data).out) = Decode(plain.file.data)

\* C14: if the process stops during a flag call with flag_index on a valid
\* log, the log on disk is either the complete content from before the call
\* or the complete updated content.
C14_UpdateAllOrNothing ==
    (procs # <<>> /\ procs[1].pc = "stopped") =>
        \/ logFile = before
        \/ logFile = File(procs[1].content)

\* C17: setup creates no log file; a flag call that succeeds leaves a log
\* file; an existing log file is never removed; an append raises its number
\* of data rows by exactly one, a row update leaves that number unchanged, and
\* a failed call leaves the file as it was.
C17_LogLifecycle ==
    /\ [](cls = "CSVLogger" =>
            /\ call = NoCall => ~logFile.exists
            /\ (ready /\ call # NoCall /\ call.err = "") => logFile.exists
            /\ (ready /\ call # NoCall /\ call.err # "") => logFile = before
            /\ (ready /\ IsAppend /\ call.err = "") =>
                  DataRows(logFile) = (IF before.exists THEN DataRows(before) ELSE 0) + 1
            /\ (ready /\ IsUpdate /\ call.err = "") =>
                  DataRows(logFile) = DataRows(before))
    /\ [][ /\ (~ready /\ ready') => logFile' = logFile
           /\ logFile.exists => logFile'.exists ]_vars

\* C18: when two appends of two processes on a directory without log file
\* have both ended, however their file operations interleaved, the log holds
\* one header row, as its first line, followed by exactly two data rows.
C18_RaceKeepsOneHeader ==
    (Len(procs) = 2 /\ procs[1].pc = "done" /\ procs[2].pc = "done") =>
        LET rows == Decode(logFile.data)
        IN  /\ Len(rows) = 3
            /\ rows[1] = ExpectedHeader
            /\ rows[2] # ExpectedHeader /\ Len(rows[2]) = Len(ExpectedHeader)
            /\ rows[3] # ExpectedHeader /\ Len(rows[3]) = Len(ExpectedHeader)

\* C5: decoding what the logger encoded gives back the header and the
\* records, cell for cell and in the same order.
C5_RoundTrip ==
    (cls = "codec" /\ decoded.exists) =>
        decoded.data = [r \in 1..Len(table) |->
                           [c \in 1..Len(table[r]) |-> TextOf(table[r][c])]]

\* ------------------------------------------------------------------------
\* Properties of HuggingFaceDatasetSaver
\* ------------------------------------------------------------------------
\* the table the mirror's log holds, read in the dialect it is written in
HFDecode(data) == Reader(Translate(data), DQ)

HFCalled == cls = "HuggingFaceDatasetSaver" /\ ops # <<>>

C7_RemoteUpdateDispatch ==
    (HFCalled /\ IsUpdate /\ call.err = "" /\ before.exists
        /\ 0 <= call.flag_index.n /\ call.flag_index.n < Len(HFDecode(before.data)) - 1) =>
        LET old == HFDecode(before.data)
            new == HFDecode(logFile.data)
            r   == call.flag_index.n + 2
        IN  /\ Len(new) = Len(old)
            /\ call.ret = Len(old) - 1
            /\ new[r][Len(new[r])] = TextOf(call.flag_option)

\* C9: when every flag call was given one value per component, the header of
\* the mirror's log has as many fields as each record: one per component, one
\* more per media component, and the flag.
C9_HeaderMatchesRecords ==
    (cls = "HuggingFaceDatasetSaver" /\ logFile.exists /\ logFile.data # <<>> /\ matched) =>
        LET rows == HFDecode(logFile.data)
        IN  /\ Len(rows[1]) = Len(components)
                                + Cardinality({i \in 1..Len(components) : IsMedia(components[i])})
                                + 1
            /\ \A k \in 1..Len(rows) : Len(rows[k]) = Len(rows[1])

\* ------------------------------------------------------------------------
\* Properties of SimpleCSVLogger
\* ------------------------------------------------------------------------
\* C13: flag returns the total number of samples flagged so far: the k-th
\* flag call on a SimpleCSVLogger set up on a directory without log returns k.
C13_SimpleReturnsCount ==
    (cls = "SimpleCSVLogger" /\ ready /\ call.flag_data.t = "list" /\ call.err = "") =>
        call.ret = appended

\* ------------------------------------------------------------------------
\* Properties of every callback
\* ------------------------------------------------------------------------
\* a flag call has been made on an instance setup has not been called on
FlaggedBeforeSetup == ~ready /\ call # NoCall

\* C12: a flag call before setup fails with the error of an unbound instance,
\* creates and changes no log file or metadata document, pulls and pushes
\* nothing and leaves the instance uninitialized; only setup makes the
\* instance ready, and once ready it stays ready through every flag call.
C12_UninitializedThenReady ==
    /\ [](FlaggedBeforeSetup =>
            /\ call.err = "AttributeError" /\ call.ret = -1
            /\ logFile = NoFile /\ infosFile = NoFile
            /\ ops = <<>> /\ appended = 0 /\ rewrites = 0)
    /\ [][ /\ (~ready /\ call' # call) => ~ready'
           /\ (~ready /\ ready') => (logFile' = logFile /\ call' = call)
           /\ ready => ready' ]_vars

C12_Witness ==
    /\ cls = "HuggingFaceDatasetSaver" /\ FlaggedBeforeSetup
    /\ call.flag_data.t = "list" /\ call.flag_index.t = "none"

\* ------------------------------------------------------------------------
\* Failures and metadata of HuggingFaceDatasetSaver
\* ------------------------------------------------------------------------
\* number of events named op in the trace of the last flag call
Count(op) == Cardinality({i \in 1..Len(ops) : ops[i].op = op})

PullFailed == HFCalled /\ ops[1].op = "pull failed"
PushHasFailed == HFCalled /\ Count("push failed") > 0

\* the cells of the record the last flag call had to write
ExpectedRecord ==
    LET cells == HFData(components, call.flag_data, call.flag_option)
    IN  [c \in 1..Len(cells) |-> TextOf(cells[c])]

\* C15: a failed pull fails the call before the mirror changes and without a
\* push; a failed push fails the call with its record still in the mirror's
\* log, after one pull and one push and nothing more.
C15_RemoteFailuresSurface ==
    /\ [](PullFailed =>
            /\ call.err # "" /\ call.ret = -1
            /\ ops = <<Event("pull failed", before)>>
            /\ logFile = before)
    /\ [](PushHasFailed =>
            /\ call.err # "" /\ call.ret = -1
            /\ Count("pull") = 1 /\ Count("pull failed") = 0
            /\ Count("push") = 1 /\ Count("push failed") = 1
            /\ Count("write") = 1 /\ ops[Len(ops)].op = "push failed"
            /\ logFile.exists
            /\ SubSeq(logFile.data, 1, Len(before.data)) = before.data
            /\ HFDecode(logFile.data)[Len(HFDecode(logFile.data))] = ExpectedRecord
            /\ Len(HFDecode(logFile.data)) > Len(HFDecode(before.data)))
    /\ [][(ops' # <<>> /\ ops'[1].op = "pull failed") =>
              (logFile' = logFile /\ infosFile' = infosFile)]_vars

C15_Witness ==
    /\ PushHasFailed /\ before.exists /\ appended = 2
    /\ Len(call.flag_data.s) = Len(components)

\* C16: the metadata document is written only by a flag call that finds no
\* log file and leaves one behind; a flag call that finds a log file, and any
\* call once the document exists, leaves the document as it is.
C16_MetadataWrittenOnce ==
    [][ /\ (cls = "HuggingFaceDatasetSaver" /\ logFile.exists) => infosFile' = infosFile
        /\ infosFile.exists => infosFile' = infosFile
        /\ infosFile' # infosFile =>
              (cls = "HuggingFaceDatasetSaver" /\ ~logFile.exists /\ logFile'.exists) ]_vars

C16_Witness ==
    /\ HFCalled /\ call.err = "" /\ before.exists /\ infosFile.exists
    /\ appended = 2 /\ Len(call.flag_data.s) # Len(components)

\* C19: whenever a flag call given one value per component has ended, by
\* returning or by failing in the sample serializer or in the push, the mirror
\* holds the metadata document if it holds a log file.
C19_MetadataWithLog ==
    (HFCalled /\ matched /\ logFile.exists) => infosFile.exists

====
